---- MODULE Spec2Model ----
(***************************************************************************)
(* GoGraphSMTP: an SMTP backend (go-smtp Session) that relays each message *)
(* through the Microsoft Graph sendMail call.  The module models main.go:  *)
(* the Session methods, the translation done by Session.Data and the       *)
(* header parser parseHeaders.                                             *)
(*                                                                         *)
(* Text handled character by character (the raw message, header names and  *)
(* values, the body, attachment paths) is a sequence of one-character      *)
(* strings.  Addresses and identities, which the code only stores, passes  *)
(* on and prints, are TLA+ strings.                                        *)
(***************************************************************************)
EXTENDS Naturals, Sequences, FiniteSets, TLC

VARIABLES
    live,           \* session ids for which Backend.NewSession has returned a Session
    backend,        \* the shared Backend (graphClient, config, logger)
    from,           \* Session.from, per session
    to,             \* Session.to, per session
    pc,             \* per session: "idle", or "sending" while Data waits in Post
    message,        \* per session: the raw message read by the Data in progress
    pending,        \* per session: the call of Post that has not returned (NoCall if none)
    sent,           \* number of calls of Post made so far
    log,            \* the records written through backend.logger, in order
    last,           \* the last command that returned, and what it returned
    readable,       \* file system: the paths os.ReadFile can read
    goVersion,      \* the language version the program was built for
    cursor,         \* per session: attachment paths the Data in progress has handled
    principal,      \* history: username of the session's last AuthPlain ("" if none)
    resetSinceAuth, \* history: Reset was called after the session's last AuthPlain
    mailSinceAuth,  \* history: Mail was called after the session's last AuthPlain
    rcptSinceMail,  \* history: Rcpt was called after the session's last Mail
    mailSinceReset, \* history: Mail was called since session start or the last Reset
    declared,       \* history: addresses passed to Rcpt since session start or last Reset
    sinceData,      \* history: addresses passed to Rcpt since the session's last Data
    outcomes,       \* history: what Post returned to each completed Data of the session
    logMark,        \* history: Len(log) when the session's current or last Data began
    headerData,     \* parser harness: the argument of parseHeaders
    headers,        \* parser harness: the map parseHeaders returned
    parsed          \* parser harness: parseHeaders has returned

sessionVars == <<live, backend, from, to, pc, message, pending, sent, log, last, readable, goVersion, cursor>>
historyVars == <<principal, resetSinceAuth, mailSinceAuth, rcptSinceMail, mailSinceReset,
                 declared, sinceData, outcomes, logMark>>
parserVars == <<headerData, headers, parsed>>
vars == <<sessionVars, historyVars, parserVars>>

----------------------------------------------------------------------------
(* Characters and the Go strings package                                   *)

CR == "\r"
LF == "\n"
SP == " "
TAB == "\t"
CRLF == <<CR, LF>>
Colon == <<":">>
Comma == <<",">>

\* unicode.IsSpace restricted to the characters the model's texts use
IsSpace(c) == c \in {SP, TAB, CR, LF}

UpperLetters == <<"A","B","C","D","E","F","G","H","I","J","K","L","M",
                  "N","O","P","Q","R","S","T","U","V","W","X","Y","Z">>
LowerLetters == <<"a","b","c","d","e","f","g","h","i","j","k","l","m",
                  "n","o","p","q","r","s","t","u","v","w","x","y","z">>

LowerChar(c) ==
    IF \E i \in 1..26 : UpperLetters[i] = c
    THEN LowerLetters[CHOOSE i \in 1..26 : UpperLetters[i] = c]
    ELSE c

\* strings.ToLower
ToLower(s) == [i \in 1..Len(s) |-> LowerChar(s[i])]

\* strings.HasPrefix
HasPrefix(s, p) == Len(s) >= Len(p) /\ SubSeq(s, 1, Len(p)) = p

\* strings.Index, 1-based; 0 when sep does not occur
Index(s, sep) ==
    IF \E i \in 1..(Len(s) + 1) : i + Len(sep) - 1 <= Len(s)
                                  /\ SubSeq(s, i, i + Len(sep) - 1) = sep
    THEN CHOOSE i \in 1..(Len(s) + 1) :
            /\ i + Len(sep) - 1 <= Len(s)
            /\ SubSeq(s, i, i + Len(sep) - 1) = sep
            /\ \A j \in 1..(i - 1) : SubSeq(s, j, j + Len(sep) - 1) # sep
    ELSE 0

\* strings.Contains
Contains(s, sub) == Index(s, sub) # 0

\* strings.Split(s, sep) for a non-empty sep: every piece between occurrences
RECURSIVE Split(_, _)
Split(s, sep) ==
    LET i == Index(s, sep)
    IN  IF i = 0 THEN <<s>>
        ELSE <<SubSeq(s, 1, i - 1)>> \o Split(SubSeq(s, i + Len(sep), Len(s)), sep)

\* strings.SplitN(s, sep, 2): cut at the first occurrence only
SplitN2(s, sep) ==
    LET i == Index(s, sep)
    IN  IF i = 0 THEN <<s>>
        ELSE <<SubSeq(s, 1, i - 1), SubSeq(s, i + Len(sep), Len(s))>>

\* strings.TrimSpace
RECURSIVE TrimLeft(_)
TrimLeft(s) == IF s # <<>> /\ IsSpace(Head(s)) THEN TrimLeft(Tail(s)) ELSE s
RECURSIVE TrimRight(_)
TrimRight(s) ==
    IF s # <<>> /\ IsSpace(s[Len(s)]) THEN TrimRight(SubSeq(s, 1, Len(s) - 1)) ELSE s
TrimSpace(s) == TrimRight(TrimLeft(s))

\* concatenation of a sequence of texts, sep between neighbours
RECURSIVE JoinText(_, _)
JoinText(ss, sep) ==
    IF ss = <<>> THEN <<>>
    ELSE IF Len(ss) = 1 THEN ss[1]
    ELSE ss[1] \o sep \o JoinText(Tail(ss), sep)

\* strings.Join on addresses (TLA+ strings)
RECURSIVE Join(_, _)
Join(ss, sep) ==
    IF ss = <<>> THEN ""
    ELSE IF Len(ss) = 1 THEN ss[1]
    ELSE ss[1] \o sep \o Join(Tail(ss), sep)

----------------------------------------------------------------------------
(* Go map[string]string                                                    *)

EmptyMap == << >>

\* m[k] = v
MapPut(m, k, v) == [x \in (DOMAIN m) \cup {k} |-> IF x = k THEN v ELSE m[x]]

\* m[k]: the zero value "" for a missing key
MapGet(m, k) == IF k \in DOMAIN m THEN m[k] ELSE <<>>

----------------------------------------------------------------------------
(* parseHeaders                                                            *)

\* the state of the loop: headers, currentHeader, currentValue
ParseStart == [headers |-> EmptyMap, currentHeader |-> <<>>, currentValue |-> <<>>]

\* if currentHeader != "" { headers[currentHeader] = currentValue.String(); currentValue.Reset() }
ParseFlush(st) ==
    IF st.currentHeader # <<>>
    THEN [st EXCEPT !.headers = MapPut(@, st.currentHeader, st.currentValue),
                    !.currentValue = <<>>]
    ELSE st

\* one iteration of the loop over lines
ParseLine(st, line) ==
    IF line = <<>> THEN st
    ELSE IF HasPrefix(line, <<SP>>) \/ HasPrefix(line, <<TAB>>)
    THEN [st EXCEPT !.currentValue = @ \o <<SP>> \o TrimSpace(line)]
    ELSE LET flushed == ParseFlush(st)
             parts == SplitN2(line, Colon)
         IN  IF Len(parts) = 2
             THEN [flushed EXCEPT !.currentHeader = TrimSpace(parts[1]),
                                  !.currentValue = @ \o TrimSpace(parts[2])]
             ELSE flushed

RECURSIVE ParseLoop(_, _)
ParseLoop(st, lines) ==
    IF lines = <<>> THEN st ELSE ParseLoop(ParseLine(st, Head(lines)), Tail(lines))

parseHeaders(data) ==
    LET st == ParseLoop(ParseStart, Split(data, CRLF))
    IN  IF st.currentHeader # <<>>
        THEN MapPut(st.headers, st.currentHeader, st.currentValue)
        ELSE st.headers

----------------------------------------------------------------------------
(* Session.Data: translation of the raw message into the sendMail request  *)

Nil == "<nil>"

\* the header names Data looks up
KeyContentType == <<"C", "o", "n", "t", "e", "n", "t", "-", "T", "y", "p", "e">>
KeyAttachments == <<"A", "t", "t", "a", "c", "h", "m", "e", "n", "t", "s">>
KeySubject == <<"S", "u", "b", "j", "e", "c", "t">>
TextHtml == <<"h", "t", "m", "l">>

\* models.TEXT_BODYTYPE, models.HTML_BODYTYPE
TEXT_BODYTYPE == "text"
HTML_BODYTYPE == "html"

\* parts := strings.Split(message, "\r\n\r\n")
MessageParts(msg) == Split(msg, CRLF \o CRLF)

\* headers := parseHeaders(parts[0])
MessageHeaders(msg) == parseHeaders(MessageParts(msg)[1])

\* body := ""; if len(parts) > 1 { body = parts[1] }
MessageBodyText(msg) ==
    LET parts == MessageParts(msg) IN IF Len(parts) > 1 THEN parts[2] ELSE <<>>

\* the language versions a build of main.go can select: no go.mod accompanies the
\* source, so the go directive is not known.  Up to go1.21 the variable of a for
\* range loop is one variable for the whole loop, from go1.22 on each iteration
\* has its own
GoVersions == {"go1.21", "go1.22"}

\* the string that the pointer &addr taken in iteration i of the loop over xs
\* points to once the loop has ended
RangeVar(xs, i) == IF goVersion = "go1.22" THEN xs[i] ELSE xs[Len(xs)]

\* mutant of toRecipients: an empty envelope yields one record with an empty address
toRecipientsPlaceholder(addrs) ==
    IF addrs = <<>>
    THEN <<[emailAddress |-> [address |-> ""]]>>
    ELSE [i \in 1..Len(addrs) |-> [emailAddress |-> [address |-> RangeVar(addrs, i)]]]

\* the loop over s.to building toRecipients
toRecipients(addrs) ==
    [i \in 1..Len(addrs) |-> [emailAddress |-> [address |-> RangeVar(addrs, i)]]]

\* mutant of contentType: the value is searched as written, without lower-casing
contentTypeCaseSensitive(hdrs) ==
    IF Contains(MapGet(hdrs, KeyContentType), TextHtml)
    THEN HTML_BODYTYPE
    ELSE TEXT_BODYTYPE

\* contentType: TEXT unless the Content-Type value, lower-cased, contains "html"
contentType(hdrs) ==
    IF Contains(ToLower(MapGet(hdrs, KeyContentType)), TextHtml)
    THEN HTML_BODYTYPE
    ELSE TEXT_BODYTYPE

messageBody(hdrs, body) == [content |-> body, contentType |-> contentType(hdrs)]

\* attachmentPaths := strings.Split(headers["Attachments"], ","), when the value is not empty
attachmentPaths(hdrs) ==
    IF Len(MapGet(hdrs, KeyAttachments)) > 0
    THEN Split(MapGet(hdrs, KeyAttachments), Comma)
    ELSE <<>>

\* os.ReadFile(strings.TrimSpace(path)) returns no error
ReadFileOk(path) == TrimSpace(path) \in readable

\* the bytes os.ReadFile returns for a readable file
FileBytes(name) == [file |-> name]

\* the format strings of the three logger.Printf calls
WarningFormat == "Error reading attachment %s: %v\n"
FailureFormat == "from=<%s>, host=graph.microsoft.com, msgid=NA, errormsg=\"%v\"\n"
SuccessFormat ==
    "from=<%s>, host=graph.microsoft.com, msgid=NA, mailer=GoGraphSmtp, tls=on, recipients=%s\n"

\* one models.FileAttachment of the loop over attachmentPaths
FileAttachment(path) ==
    [name |-> TrimSpace(path), contentBytes |-> FileBytes(TrimSpace(path))]

\* mutant of attachments: the first path whose read fails ends the loop (break)
attachmentsAbort(hdrs) ==
    LET paths == attachmentPaths(hdrs)
        failedAt == {i \in 1..Len(paths) : ~ReadFileOk(paths[i])}
        stop == IF failedAt = {} THEN Len(paths) + 1
                ELSE CHOOSE i \in failedAt : \A j \in failedAt : i <= j
    IN  [i \in 1..(stop - 1) |-> FileAttachment(paths[i])]

\* the attachments appended by the loop: a path whose read fails is skipped (continue)
attachments(hdrs) ==
    LET kept == SelectSeq(attachmentPaths(hdrs), ReadFileOk)
    IN  [i \in 1..Len(kept) |-> FileAttachment(kept[i])]

\* the record the loop logs for a path whose read fails
AttachmentWarning(path, s) ==
    [fmt |-> WarningFormat, args |-> <<path, "no such file or directory">>, by |-> s]

\* msg := models.NewMessage() with subject, body, recipients and attachments set
NewMessage(msg, addrs) ==
    LET hdrs == MessageHeaders(msg)
    IN  [subject |-> MapGet(hdrs, KeySubject),
         body |-> messageBody(hdrs, MessageBodyText(msg)),
         toRecipients |-> toRecipients(addrs),
         attachments |-> attachments(hdrs)]

\* requestBody := users.NewItemSendMailPostRequestBody()
requestBody(msg, addrs) ==
    [message |-> NewMessage(msg, addrs), saveToSentItems |-> TRUE]

\* the record logged when Post returned an error
FailureRecord(identity, err, s) ==
    [fmt |-> FailureFormat,
     args |-> <<identity, err>>,
     by |-> s]

\* the record logged when Post returned nil
SuccessRecord(identity, addrs, s) ==
    [fmt |-> SuccessFormat,
     args |-> <<identity, Join(addrs, ",")>>,
     by |-> s]

\* fmt.Errorf("failed to send email: %v", err)
SendError(err) == "failed to send email: " \o err

\* mutant of DataReturn: the send error is logged but not returned
DataReturnSwallowed(err) == Nil

\* what Data returns once Post has returned err
DataReturn(err) == IF err # Nil THEN SendError(err) ELSE Nil


----------------------------------------------------------------------------
(* The sessions                                                            *)

AllSessions == {"c1", "c2"}

\* bounds of the model: Data calls that reach Post, recipients of one envelope,
\* lines of a header block given to the parser harness
MaxData == 2
MaxRcpt == 2
MaxLines == 3

\* the error of context.WithTimeout's deadline
DeadlineExceeded == "context deadline exceeded"

\* the Backend built by NewBackend, shared by every session
TheBackend == [graphClient |-> "graphClient", config |-> "config", logger |-> "logger"]

\* no call of Post in flight
NoCall == [user |-> "none", body |-> <<>>]

\* graphClient.Users().ByUserId(identity).SendMail().Post(ctx, body, nil)
PostCall(identity, body) == [user |-> identity, body |-> body]

NoCommand == [op |-> "none", s |-> "none", ret |-> Nil, post |-> "not called"]

Returned(op, s, ret, post) == [op |-> op, s |-> s, ret |-> ret, post |-> post]

InitSessions ==
    /\ live = {}
    /\ backend = TheBackend
    /\ goVersion \in GoVersions
    /\ from = [s \in AllSessions |-> ""]
    /\ to = [s \in AllSessions |-> <<>>]
    /\ pc = [s \in AllSessions |-> "idle"]
    /\ message = [s \in AllSessions |-> <<>>]
    /\ pending = [s \in AllSessions |-> NoCall]
    /\ cursor = [s \in AllSessions |-> 0]
    /\ sent = 0
    /\ log = <<>>
    /\ last = NoCommand
    /\ principal = [s \in AllSessions |-> ""]
    /\ resetSinceAuth = [s \in AllSessions |-> FALSE]
    /\ mailSinceAuth = [s \in AllSessions |-> FALSE]
    /\ rcptSinceMail = [s \in AllSessions |-> FALSE]
    /\ mailSinceReset = [s \in AllSessions |-> FALSE]
    /\ declared = [s \in AllSessions |-> <<>>]
    /\ sinceData = [s \in AllSessions |-> <<>>]
    /\ outcomes = [s \in AllSessions |-> <<>>]
    /\ logMark = [s \in AllSessions |-> 0]

InitParser ==
    /\ headerData = <<>>
    /\ headers = EmptyMap
    /\ parsed = FALSE

\* Backend.NewSession: &Session{backend: bkd}, from and to zero
NewSession(s) ==
    /\ s \notin live
    /\ live' = live \cup {s}
    /\ from' = [from EXCEPT ![s] = ""]
    /\ to' = [to EXCEPT ![s] = <<>>]
    /\ last' = Returned("NewSession", s, Nil, "not called")
    /\ UNCHANGED <<backend, pc, message, pending, sent, log, readable, goVersion, cursor>>
    /\ UNCHANGED historyVars
    /\ UNCHANGED parserVars

Ready(s) == s \in live /\ pc[s] = "idle"

\* Session.AuthPlain
AuthPlain(s, username) ==
    /\ Ready(s)
    /\ from' = [from EXCEPT ![s] = username]
    /\ last' = Returned("AuthPlain", s, Nil, "not called")
    /\ principal' = [principal EXCEPT ![s] = username]
    /\ resetSinceAuth' = [resetSinceAuth EXCEPT ![s] = FALSE]
    /\ mailSinceAuth' = [mailSinceAuth EXCEPT ![s] = FALSE]
    /\ UNCHANGED <<live, backend, to, pc, message, pending, sent, log, readable, goVersion, cursor>>
    /\ UNCHANGED <<rcptSinceMail, mailSinceReset, declared, sinceData, outcomes, logMark>>
    /\ UNCHANGED parserVars

\* Session.Mail
Mail(s, addr) ==
    /\ Ready(s)
    /\ from' = [from EXCEPT ![s] = addr]
    /\ last' = Returned("Mail", s, Nil, "not called")
    /\ mailSinceAuth' = [mailSinceAuth EXCEPT ![s] = TRUE]
    /\ mailSinceReset' = [mailSinceReset EXCEPT ![s] = TRUE]
    /\ rcptSinceMail' = [rcptSinceMail EXCEPT ![s] = FALSE]
    /\ UNCHANGED <<live, backend, to, pc, message, pending, sent, log, readable, goVersion, cursor>>
    /\ UNCHANGED <<principal, resetSinceAuth, declared, sinceData, outcomes, logMark>>
    /\ UNCHANGED parserVars

\* mutant of Rcpt: the recipient list is kept in the shared Backend, so that an
\* address is appended to the envelope of every open session
RcptShared(s, addr) ==
    /\ Ready(s)
    /\ Len(to[s]) < MaxRcpt
    /\ to' = [t \in AllSessions |-> IF t \in live THEN Append(to[t], addr) ELSE to[t]]
    /\ last' = Returned("Rcpt", s, Nil, "not called")
    /\ rcptSinceMail' = [rcptSinceMail EXCEPT ![s] = TRUE]
    /\ declared' = [declared EXCEPT ![s] = Append(@, addr)]
    /\ sinceData' = [sinceData EXCEPT ![s] = Append(@, addr)]
    /\ UNCHANGED <<live, backend, from, pc, message, pending, sent, log, readable, goVersion, cursor>>
    /\ UNCHANGED <<principal, resetSinceAuth, mailSinceAuth, mailSinceReset, outcomes, logMark>>
    /\ UNCHANGED parserVars

\* Session.Rcpt
Rcpt(s, addr) ==
    /\ Ready(s)
    /\ Len(to[s]) < MaxRcpt
    /\ to' = [to EXCEPT ![s] = Append(@, addr)]
    /\ last' = Returned("Rcpt", s, Nil, "not called")
    /\ rcptSinceMail' = [rcptSinceMail EXCEPT ![s] = TRUE]
    /\ declared' = [declared EXCEPT ![s] = Append(@, addr)]
    /\ sinceData' = [sinceData EXCEPT ![s] = Append(@, addr)]
    /\ UNCHANGED <<live, backend, from, pc, message, pending, sent, log, readable, goVersion, cursor>>
    /\ UNCHANGED <<principal, resetSinceAuth, mailSinceAuth, mailSinceReset, outcomes, logMark>>
    /\ UNCHANGED parserVars

\* Session.Reset
Reset(s) ==
    /\ Ready(s)
    /\ from' = [from EXCEPT ![s] = ""]
    /\ to' = [to EXCEPT ![s] = <<>>]
    /\ last' = Returned("Reset", s, Nil, "not called")
    /\ resetSinceAuth' = [resetSinceAuth EXCEPT ![s] = TRUE]
    /\ mailSinceReset' = [mailSinceReset EXCEPT ![s] = FALSE]
    /\ rcptSinceMail' = [rcptSinceMail EXCEPT ![s] = FALSE]
    /\ declared' = [declared EXCEPT ![s] = <<>>]
    /\ sinceData' = [sinceData EXCEPT ![s] = <<>>]
    /\ UNCHANGED <<live, backend, pc, message, pending, sent, log, readable, goVersion, cursor>>
    /\ UNCHANGED <<principal, mailSinceAuth, outcomes, logMark>>
    /\ UNCHANGED parserVars

\* Session.Logout
Logout(s) ==
    /\ Ready(s)
    /\ last' = Returned("Logout", s, Nil, "not called")
    /\ UNCHANGED <<live, backend, from, to, pc, message, pending, sent, log, readable, goVersion, cursor>>
    /\ UNCHANGED historyVars
    /\ UNCHANGED parserVars

\* mutant of OutcomeRecord: a send failure sticks to the session, so that its later
\* messages are logged as failures too
OutcomeRecordSticky(s, err) ==
    IF err # Nil \/ (outcomes[s] # <<>> /\ outcomes[s][Len(outcomes[s])] # Nil)
    THEN FailureRecord(from[s], IF err # Nil THEN err ELSE outcomes[s][Len(outcomes[s])], s)
    ELSE SuccessRecord(from[s], to[s], s)

\* what session s's Data logs once Post has returned err
OutcomeRecord(s, err) ==
    IF err # Nil THEN FailureRecord(from[s], err, s) ELSE SuccessRecord(from[s], to[s], s)

\* the Data calls that have read their message and not yet called Post
Translating == Cardinality({t \in AllSessions : pc[t] = "attaching"})

\* mutant of Data: a failed read is treated like a failed send, logged as a failure
\* of the message, and the envelope is dropped
DataReadErrorLogged(s, raw, readErr) ==
    /\ Ready(s)
    /\ sent + Translating < MaxData
    /\ IF readErr # Nil
       THEN /\ last' = Returned("Data", s, readErr, "not called")
            /\ log' = Append(log, FailureRecord(from[s], readErr, s))
            /\ to' = [to EXCEPT ![s] = <<>>]
            /\ UNCHANGED <<live, backend, from, pc, message, pending, sent, readable, goVersion, cursor>>
            /\ UNCHANGED historyVars
       ELSE /\ message' = [message EXCEPT ![s] = raw]
            /\ pc' = [pc EXCEPT ![s] = "attaching"]
            /\ cursor' = [cursor EXCEPT ![s] = 0]
            /\ logMark' = [logMark EXCEPT ![s] = Len(log)]
            /\ UNCHANGED <<live, backend, from, to, pending, sent, log, last, readable,
                           goVersion>>
            /\ UNCHANGED <<principal, resetSinceAuth, mailSinceAuth, rcptSinceMail,
                           mailSinceReset, declared, sinceData, outcomes>>
    /\ UNCHANGED parserVars

\* Session.Data up to the loop over the attachment paths: the message is read (readErr
\* is what io.ReadAll returned; a failed read returns at once), split and parsed.
\* Headers, body and recipients are functions of the message and of the session's own
\* fields, which no other session can change; they are taken when Post is called.
Data(s, raw, readErr) ==
    /\ Ready(s)
    /\ sent + Translating < MaxData
    /\ IF readErr # Nil
       THEN /\ last' = Returned("Data", s, readErr, "not called")
            /\ UNCHANGED <<live, backend, from, to, pc, message, pending, sent, log, readable, goVersion, cursor>>
            /\ UNCHANGED historyVars
       ELSE /\ message' = [message EXCEPT ![s] = raw]
            /\ pc' = [pc EXCEPT ![s] = "attaching"]
            /\ cursor' = [cursor EXCEPT ![s] = 0]
            /\ logMark' = [logMark EXCEPT ![s] = Len(log)]
            /\ UNCHANGED <<live, backend, from, to, pending, sent, log, last, readable,
                           goVersion>>
            /\ UNCHANGED <<principal, resetSinceAuth, mailSinceAuth, rcptSinceMail,
                           mailSinceReset, declared, sinceData, outcomes>>
    /\ UNCHANGED parserVars

\* one iteration of the loop over attachmentPaths: os.ReadFile on the next path, and
\* one logger.Printf if the read fails.  Other sessions run between iterations.
ReadAttachment(s) ==
    /\ s \in live
    /\ pc[s] = "attaching"
    /\ cursor[s] < Len(attachmentPaths(MessageHeaders(message[s])))
    /\ LET path == attachmentPaths(MessageHeaders(message[s]))[cursor[s] + 1]
       IN  log' = IF ReadFileOk(path) THEN log ELSE Append(log, AttachmentWarning(path, s))
    /\ cursor' = [cursor EXCEPT ![s] = @ + 1]
    /\ UNCHANGED <<live, backend, from, to, pc, message, pending, sent, last, readable,
                   goVersion>>
    /\ UNCHANGED historyVars
    /\ UNCHANGED parserVars

\* Session.Data after the loop: the request is built and Post is called; the session
\* then waits for Post to return
CallPost(s) ==
    /\ s \in live
    /\ pc[s] = "attaching"
    /\ cursor[s] = Len(attachmentPaths(MessageHeaders(message[s])))
    /\ pending' = [pending EXCEPT ![s] = PostCall(from[s], requestBody(message[s], to[s]))]
    /\ sent' = sent + 1
    /\ pc' = [pc EXCEPT ![s] = "sending"]
    /\ cursor' = [cursor EXCEPT ![s] = 0]
    /\ UNCHANGED <<live, backend, from, to, message, log, last, readable, goVersion>>
    /\ UNCHANGED historyVars
    /\ UNCHANGED parserVars

\* mutant of PostReturn: a failed Post is logged and tried once more before Data
\* gives up
PostReturnRetry(s, err) ==
    /\ s \in live
    /\ pc[s] = "sending"
    /\ log' = Append(log, OutcomeRecord(s, err))
    /\ IF err # Nil /\ outcomes[s] = <<>> /\ sent < MaxData
       THEN /\ sent' = sent + 1
            /\ UNCHANGED <<last, pc, pending, message, sinceData>>
            /\ outcomes' = [outcomes EXCEPT ![s] = Append(@, Nil)]
       ELSE /\ last' = Returned("Data", s, DataReturn(err), err)
            /\ pc' = [pc EXCEPT ![s] = "idle"]
            /\ outcomes' = [outcomes EXCEPT ![s] = Append(@, err)]
            /\ sinceData' = [sinceData EXCEPT ![s] = <<>>]
            /\ pending' = [pending EXCEPT ![s] = NoCall]
            /\ message' = [message EXCEPT ![s] = <<>>]
            /\ UNCHANGED sent
    /\ UNCHANGED <<live, backend, from, to, readable, goVersion, cursor>>
    /\ UNCHANGED <<principal, resetSinceAuth, mailSinceAuth, rcptSinceMail,
                   mailSinceReset, declared, logMark>>
    /\ UNCHANGED parserVars

\* the rest of Session.Data, once Post has returned err: the outcome is logged and
\* returned to the transport
PostReturn(s, err) ==
    /\ s \in live
    /\ pc[s] = "sending"
    /\ log' = Append(log, OutcomeRecord(s, err))
    /\ last' = Returned("Data", s, DataReturn(err), err)
    /\ pc' = [pc EXCEPT ![s] = "idle"]
    /\ outcomes' = [outcomes EXCEPT ![s] = Append(@, err)]
    /\ sinceData' = [sinceData EXCEPT ![s] = <<>>]
    /\ pending' = [pending EXCEPT ![s] = NoCall]
    /\ message' = [message EXCEPT ![s] = <<>>]
    /\ UNCHANGED <<live, backend, from, to, sent, readable, goVersion, cursor>>
    /\ UNCHANGED <<principal, resetSinceAuth, mailSinceAuth, rcptSinceMail,
                   mailSinceReset, declared, logMark>>
    /\ UNCHANGED parserVars

\* mutant of Deadline: Post is given a context without deadline, so that nothing
\* ends the wait for a collaborator that does not answer
DeadlineNever(s) ==
    /\ s \in live
    /\ pc[s] = "sending"
    /\ UNCHANGED vars

\* the 30 s of context.WithTimeout pass before the collaborator answers: Post returns
\* the context's error
Deadline(s) == PostReturn(s, DeadlineExceeded)

----------------------------------------------------------------------------
(* Inputs                                                                  *)

Users == {"alice@example.com"}
Senders == {"alice@example.com", "mallory@example.com"}
Recipients == {"bob@example.com", "carol@example.com"}
PostResults == {Nil, "403 Forbidden"}
ReadResults == {Nil, "unexpected EOF"}

PathA == <<"a">>
PathB == <<"b">>
PathC == <<"c">>
Paths == {PathA, PathB, PathC}

Line(name, value) == name \o <<":", SP>> \o value
Raw(lines, body) == JoinText(lines, CRLF) \o CRLF \o CRLF \o body

TextHi == <<"H", "i">>
TextHelloBob == <<"H", "e", "l", "l", "o", " ", "B", "o", "b">>
TextTwoParagraphs == <<"H", "e", "l", "l", "o", "\r", "\n", "\r", "\n", "B", "o", "b">>
TextPlain == <<"t", "e", "x", "t", "/", "p", "l", "a", "i", "n">>

\* the message of the end-to-end scenario
MsgHello == Raw(<<Line(KeySubject, TextHi), Line(KeyContentType, TextPlain)>>, TextHelloBob)

\* an HTML message naming two attachment files
MsgReport ==
    Raw(<<Line(KeySubject, <<"R", "e">>),
          Line(KeyContentType, <<"t", "e", "x", "t", "/", "H", "T", "M", "L">>),
          Line(KeyAttachments, <<"a", ",", " ", "b">>)>>,
        <<"<", "p", ">", "x", "<", "/", "p", ">">>)

\* the message submitted under Spec; of its two files only the first is readable
\* there, so that its Data logs a warning before the outcome
ProtocolMessages == {MsgReport}

SubjectOptions == {<<>>, <<Line(KeySubject, TextHi)>>}

TypeOptions ==
    {<<>>,
     <<Line(KeyContentType, TextPlain)>>,
     <<Line(KeyContentType, <<"t", "e", "x", "t", "/", "h", "t", "m", "l">>)>>,
     <<Line(KeyContentType, <<"T", "E", "X", "T", "/", "H", "T", "M", "L">>)>>,
     <<Line(KeyContentType, <<"t", "e", "x", "t", "/", "x", "H", "t", "M", "l">>)>>,
     <<Line(KeyContentType, <<"t", "e", "x", "t", "/", "h", "t", "m">>)>>,
     <<Line(KeyContentType, <<"t", "e", "x", "t", "/">>), <<" ", "H", "T", "M", "L">>>>}

AttachmentOptions ==
    {<<>>,
     <<KeyAttachments \o Colon>>,
     <<Line(KeyAttachments, <<"a">>)>>,
     <<Line(KeyAttachments, <<"a", ",", " ", "b">>)>>,
     <<Line(KeyAttachments, <<"b", " ", ",", "a", ",", "c">>)>>,
     <<Line(KeyAttachments, <<"a", ",", ",", "a">>)>>,
     <<Line(KeyAttachments, <<"c", ",">>), <<"\t", "b">>>>}

BodyOptions == {<<>>, TextHelloBob, TextTwoParagraphs}

\* the messages submitted in the end-to-end scenario
ScenarioMessages ==
    {Raw(su \o ty \o at, bo) :
        su \in SubjectOptions, ty \in TypeOptions, at \in AttachmentOptions,
        bo \in BodyOptions}

----------------------------------------------------------------------------
(* Specifications                                                          *)

\* Spec: one connection, the Session's methods called in any order
Init ==
    /\ InitSessions
    /\ readable = {PathA}
    /\ InitParser

Next ==
    \E s \in {"c1"} :
        \/ NewSession(s)
        \/ \E u \in Users : AuthPlain(s, u)
        \/ \E a \in Senders : Mail(s, a)
        \/ \E a \in Recipients : Rcpt(s, a)
        \/ \E raw \in ProtocolMessages, e \in ReadResults : Data(s, raw, e)
        \/ ReadAttachment(s)
        \/ CallPost(s)
        \/ \E e \in PostResults : PostReturn(s, e)
        \/ Deadline(s)
        \/ Reset(s)
        \/ Logout(s)

Spec == Init /\ [][Next]_vars

\* SpecSubmit: the end-to-end scenario.  A fresh connection authenticates, declares
\* the sender and one or more recipients and submits one message, over every
\* message of ScenarioMessages and every set of readable files.
InitSubmit ==
    /\ InitSessions
    /\ readable \in SUBSET Paths
    /\ InitParser

NextSubmit ==
    \E s \in {"c1"} :
        \/ NewSession(s)
        \/ \E u \in Users : principal[s] = "" /\ AuthPlain(s, u)
        \/ \E a \in Users : principal[s] = a /\ ~mailSinceAuth[s] /\ Mail(s, a)
        \/ \E a \in Recipients : mailSinceAuth[s] /\ sent = 0 /\ Rcpt(s, a)
        \/ \E raw \in ScenarioMessages :
              rcptSinceMail[s] /\ sent = 0 /\ Data(s, raw, Nil)
        \/ ReadAttachment(s)
        \/ CallPost(s)
        \/ \E e \in PostResults : PostReturn(s, e)
        \/ Deadline(s)

SpecSubmit == InitSubmit /\ [][NextSubmit]_vars

\* SpecParse: parseHeaders applied to every header block of at most MaxLines lines
\* drawn from ParserLines
ParserLines ==
    {<<"A", ":", " ", "1">>,
     <<"B", ":", " ", "2">>,
     <<"A", ":", "3">>,
     <<" ", "c">>,
     <<"\t", "d", " ">>,
     <<"j", "u", "n", "k">>,
     <<>>}

HeaderBlocks ==
    {JoinText(ls, CRLF) : ls \in UNION {[1..n -> ParserLines] : n \in 0..MaxLines}}

InitParse ==
    /\ InitSessions
    /\ readable = {PathA}
    /\ headerData \in HeaderBlocks
    /\ headers = EmptyMap
    /\ parsed = FALSE

CallParseHeaders ==
    /\ ~parsed
    /\ headers' = parseHeaders(headerData)
    /\ parsed' = TRUE
    /\ UNCHANGED <<headerData, sessionVars, historyVars>>

NextParse == CallParseHeaders

SpecParse == InitParse /\ [][NextParse]_vars

\* SpecShared: two connections share the Backend.  Each client issues its commands
\* in SMTP order (AUTH, MAIL, RCPT.., DATA, RSET, MAIL, ..); the commands of the two
\* interleave in any order, and a Data of one may wait in Post while the other goes on
MsgNote == Raw(<<Line(KeySubject, TextHi)>>, <<"y">>)

\* a message naming two files, neither of them readable under Init: its Data logs
\* two warnings, between which the other session may run
MsgMissing == Raw(<<Line(KeyAttachments, <<"b", " ", ",", "c">>)>>, <<"x">>)

SharedMessages == {MsgNote, MsgMissing}

\* the client of c1 writes as alice to bob, the client of c2 as mallory to carol
SenderOf(s) == IF s = "c1" THEN "alice@example.com" ELSE "mallory@example.com"
RecipientOf(s) == IF s = "c1" THEN "bob@example.com" ELSE "carol@example.com"

NextShared ==
    \E s \in AllSessions :
        \/ NewSession(s)
        \/ principal[s] = "" /\ AuthPlain(s, SenderOf(s))
        \/ principal[s] # "" /\ ~mailSinceReset[s] /\ Mail(s, SenderOf(s))
        \/ mailSinceReset[s] /\ Rcpt(s, RecipientOf(s))
        \/ \E raw \in SharedMessages : rcptSinceMail[s] /\ Data(s, raw, Nil)
        \/ ReadAttachment(s)
        \/ CallPost(s)
        \/ \E e \in PostResults : PostReturn(s, e)
        \/ Deadline(s)
        \/ sinceData[s] = <<>> /\ declared[s] # <<>> /\ Reset(s)

SpecShared == Init /\ [][NextShared]_vars

\* SpecDeadline: SpecShared, where the deadline of a pending Post does expire: the
\* context given to Post ends it after 30 s at the latest
SpecDeadline == SpecShared /\ \A s \in AllSessions : WF_vars(Deadline(s))

\* SpecSpelling: the end-to-end scenario of SpecSubmit over messages whose header
\* names are written in the canonical and in other letter cases
SubjectSpellings == {KeySubject, <<"S", "U", "B", "J", "E", "C", "T">>}
TypeSpellings == {KeyContentType, ToLower(KeyContentType)}
AttachmentSpellings == {KeyAttachments, ToLower(KeyAttachments)}

SpelledMessages ==
    {Raw(<<Line(su, TextHi),
           Line(ty, <<"t", "e", "x", "t", "/", "h", "t", "m", "l">>),
           Line(at, <<"a", ",", "b">>)>>, TextHelloBob) :
        su \in SubjectSpellings, ty \in TypeSpellings, at \in AttachmentSpellings}

NextSpelling ==
    \E s \in {"c1"} :
        \/ NewSession(s)
        \/ \E u \in Users : principal[s] = "" /\ AuthPlain(s, u)
        \/ \E a \in Users : principal[s] = a /\ ~mailSinceAuth[s] /\ Mail(s, a)
        \/ \E a \in Recipients : mailSinceAuth[s] /\ sent = 0 /\ Rcpt(s, a)
        \/ \E raw \in SpelledMessages :
              rcptSinceMail[s] /\ sent = 0 /\ Data(s, raw, Nil)
        \/ ReadAttachment(s)
        \/ CallPost(s)
        \/ \E e \in PostResults : PostReturn(s, e)
        \/ Deadline(s)

SpecSpelling == InitSubmit /\ [][NextSpelling]_vars

----------------------------------------------------------------------------
(* Claims                                                                  *)

\* the addresses of the recipient records of a request, in order
RequestAddresses(call) ==
    [i \in 1..Len(call.body.message.toRecipients) |->
        call.body.message.toRecipients[i].emailAddress.address]

Range(f) == {f[i] : i \in DOMAIN f}

\* the records session s wrote since its current or last Data began
DataLog(s) ==
    LET mine(r) == r.by = s
    IN  SelectSeq(SubSeq(log, logMark[s] + 1, Len(log)), mine)

\* C1: when AuthPlain(u) is followed, with no Reset in between, by Mail(f), one or
\* more Rcpt, and Data, the identity passed to ByUserId is u, also when f differs
\* from u.
C1_SendAsPrincipal ==
    \A s \in AllSessions :
        (/\ pc[s] = "sending"
         /\ principal[s] # ""
         /\ ~resetSinceAuth[s]
         /\ mailSinceAuth[s]
         /\ rcptSinceMail[s])
        => pending[s].user = principal[s]

\* C2: Reset leaves the authenticated identity unchanged: after AuthPlain(u) and
\* one or more Reset calls, a later Data still sends as u.  (Stated for a Data
\* that no Mail precedes since the last Reset, so that only Reset has touched
\* the identity.)
C2_ResetKeepsIdentity ==
    \A s \in AllSessions :
        (/\ pc[s] = "sending"
         /\ principal[s] # ""
         /\ resetSinceAuth[s]
         /\ ~mailSinceReset[s])
        => pending[s].user = principal[s]

\* C3: once a Data has completed (accepted or rejected) the envelope is cleared, so
\* the request built by a later Data on the session holds only addresses declared
\* by Rcpt after the previous Data, never addresses of an earlier message.
C3_EnvelopeClearedByData ==
    \A s \in AllSessions :
        (pc[s] = "sending" /\ outcomes[s] # <<>>)
        => Range(RequestAddresses(pending[s])) \subseteq Range(sinceData[s])

\* the last command that returned is a Data of session s that Post returned to, and
\* the session has begun no other Data since
DataCompleted(s) ==
    last.op = "Data" /\ last.s = s /\ last.post # "not called" /\ pc[s] = "idle"

\* C5: when the raw message was read, Data returns a rejection wrapping the
\* collaborator's error exactly when Post returned an error, and then the record
\* it wrote to the log is a failure record; when Post succeeded Data returns nil.
C5_RejectIffSendFailed ==
    \A s \in AllSessions :
        DataCompleted(s) =>
            /\ (last.ret # Nil) <=> (last.post # Nil)
            /\ last.post # Nil =>
                  /\ last.ret = "failed to send email: " \o last.post
                  /\ DataLog(s) # <<>>
                  /\ DataLog(s)[Len(DataLog(s))].fmt = FailureFormat
                  /\ DataLog(s)[Len(DataLog(s))].args = <<from[s], last.post>>
            /\ last.post = Nil => last.ret = Nil

\* C5 witness: a Data has been rejected because Post returned an error
C5_Witness ==
    \E s \in AllSessions :
        DataCompleted(s) /\ last.post = "403 Forbidden" /\ last.ret # Nil

\* the session's most recent completed Data was rejected by a send failure
AfterSendFailure(s) ==
    /\ s \in live
    /\ pc[s] = "idle"
    /\ outcomes[s] # <<>>
    /\ outcomes[s][Len(outcomes[s])] # Nil

\* C6: after a Data rejected by a send failure the session still accepts Mail and
\* Rcpt (each is enabled and returns nil), and a following Data whose send
\* succeeds returns nil and is logged as a success.
C6_UsableAfterSendFailure ==
    \A s \in AllSessions :
        /\ AfterSendFailure(s) =>
              /\ \A a \in Senders : ENABLED Mail(s, a)
              /\ Len(to[s]) < MaxRcpt => \A a \in Recipients : ENABLED Rcpt(s, a)
              /\ (last.s = s /\ last.op \in {"Mail", "Rcpt"}) => last.ret = Nil
        /\ (/\ DataCompleted(s)
            /\ last.post = Nil
            /\ Len(outcomes[s]) >= 2
            /\ outcomes[s][Len(outcomes[s]) - 1] # Nil)
           => /\ last.ret = Nil
              /\ DataLog(s) # <<>>
              /\ DataLog(s)[Len(DataLog(s))].fmt = SuccessFormat
              /\ DataLog(s)[Len(DataLog(s))].args = <<from[s], Join(to[s], ",")>>

\* C6 witness: a session whose previous Data was rejected by a send failure has
\* had its next Data, with a sender and a recipient declared, accepted
C6_Witness ==
    \E s \in AllSessions :
        /\ DataCompleted(s)
        /\ last.ret = Nil
        /\ Len(outcomes[s]) >= 2
        /\ outcomes[s][Len(outcomes[s]) - 1] # Nil
        /\ mailSinceReset[s]
        /\ rcptSinceMail[s]

\* C7: the recipient list of the request equals, element for element and in order,
\* the addresses passed to Rcpt since the session started or was last reset;
\* repeated addresses are kept and record i holds the i-th address.
C7_RecipientsAsDeclared ==
    \A s \in AllSessions :
        /\ s \in live => to[s] = declared[s]
        /\ pc[s] = "sending" =>
              /\ Len(pending[s].body.message.toRecipients) = Len(declared[s])
              /\ \A i \in 1..Len(declared[s]) :
                    pending[s].body.message.toRecipients[i].emailAddress.address
                        = declared[s][i]

\* the in-flight request of session s, and the message it was built from
Request(s) == pending[s].body.message

\* the value parseHeaders gives the message's header of that name ("" if none)
HeaderValue(msg, name) == MapGet(MessageHeaders(msg), name)

\* C4: a fresh session that runs AuthPlain(u), Mail(u), Rcpt(r), Data(raw), where raw
\* has the Subject header S, Content-Type text/plain, no Attachments header and the
\* body B after the separator, makes exactly one send call, as u, for a request with
\* subject S, plain-text body B, recipients [r], no attachments and save-to-sent true.
C4_EndToEnd ==
    \A s \in AllSessions, B \in BodyOptions :
        (/\ pc[s] = "sending"
         /\ message[s] = Raw(<<Line(KeySubject, TextHi), Line(KeyContentType, TextPlain)>>, B)
         /\ Len(declared[s]) = 1)
        => /\ sent = 1
           /\ pending[s].user = principal[s]
           /\ Request(s).subject = TextHi
           /\ Request(s).body.content = B
           /\ Request(s).body.contentType = TEXT_BODYTYPE
           /\ RequestAddresses(pending[s]) = declared[s]
           /\ Request(s).attachments = <<>>
           /\ pending[s].body.saveToSentItems = TRUE

\* "html" occurs in v in some letter case
MentionsHtml(v) ==
    \E i \in 1..Len(v) :
        /\ i + 3 <= Len(v)
        /\ v[i] \in {"h", "H"}
        /\ v[i + 1] \in {"t", "T"}
        /\ v[i + 2] \in {"m", "M"}
        /\ v[i + 3] \in {"l", "L"}

\* C9: the content kind of the request body is HTML exactly when the value of the
\* message's Content-Type header contains "html" in any letter case, and text in
\* every other case, including when the header is absent.
C9_HtmlIffContentTypeMentionsHtml ==
    \A s \in AllSessions :
        pc[s] = "sending" =>
            /\ Request(s).body.contentType \in {TEXT_BODYTYPE, HTML_BODYTYPE}
            /\ (Request(s).body.contentType = HTML_BODYTYPE)
                  <=> MentionsHtml(HeaderValue(message[s], KeyContentType))

\* C9 witness: an HTML request built from a Content-Type value that does not hold
\* "html" in lower case
C9_Witness ==
    \E s \in AllSessions :
        /\ pc[s] = "sending"
        /\ Request(s).body.contentType = HTML_BODYTYPE
        /\ ~Contains(HeaderValue(message[s], KeyContentType), TextHtml)

\* the positions of the commas of v, and its comma-separated fields in order
CommaAt(v) == {i \in 1..Len(v) : v[i] = ","}
FieldCount(v) == IF v = <<>> THEN 0 ELSE Cardinality(CommaAt(v)) + 1
FieldStart(v, k) ==
    IF k = 1 THEN 1
    ELSE 1 + CHOOSE i \in CommaAt(v) : Cardinality({j \in CommaAt(v) : j <= i}) = k - 1
FieldEnd(v, k) ==
    IF k = FieldCount(v) THEN Len(v)
    ELSE (CHOOSE i \in CommaAt(v) : Cardinality({j \in CommaAt(v) : j <= i}) = k) - 1
Field(v, k) == SubSeq(v, FieldStart(v, k), FieldEnd(v, k))

\* the fields of v that name a readable (an unreadable) file, by position
ReadableFields(v) == {k \in 1..FieldCount(v) : TrimSpace(Field(v, k)) \in readable}
UnreadableFields(v) == (1..FieldCount(v)) \ ReadableFields(v)

\* the k-th smallest element of a set of numbers
Nth(S, k) == CHOOSE x \in S : Cardinality({y \in S : y <= x}) = k

\* the warnings among the records of session s's Data
Warnings(s) ==
    LET isWarning(r) == r.fmt = WarningFormat IN SelectSeq(DataLog(s), isWarning)

\* C10: for an Attachments header of N comma-separated paths of which k are
\* unreadable, the request holds exactly the N-k readable ones in header order, each
\* named by its trimmed path, one warning is logged per unreadable path, and the
\* request is handed to the send collaborator.
C10_AttachmentsPerPath ==
    \A s \in AllSessions :
        pc[s] = "sending" =>
            LET v == HeaderValue(message[s], KeyAttachments)
                good == ReadableFields(v)
                bad == UnreadableFields(v)
            IN  /\ pending[s] # NoCall
                /\ Len(Request(s).attachments) = FieldCount(v) - Cardinality(bad)
                /\ \A i \in 1..Cardinality(good) :
                      /\ Request(s).attachments[i].name = TrimSpace(Field(v, Nth(good, i)))
                      /\ Request(s).attachments[i].contentBytes
                            = FileBytes(TrimSpace(Field(v, Nth(good, i))))
                /\ Len(Warnings(s)) = Cardinality(bad)
                /\ \A i \in 1..Cardinality(bad) :
                      Warnings(s)[i].args[1] = Field(v, Nth(bad, i))

\* C10 witness: a request in flight for a header of three paths, exactly one of
\* them unreadable
C10_Witness ==
    \E s \in AllSessions :
        /\ pc[s] = "sending"
        /\ FieldCount(HeaderValue(message[s], KeyAttachments)) = 3
        /\ Cardinality(UnreadableFields(HeaderValue(message[s], KeyAttachments))) = 1
        /\ Len(Request(s).attachments) = 2

\* a line that continues the header before it
IsContinuation(line) == line # <<>> /\ line[1] \in {SP, TAB}

\* a line of the form Name: value
IsHeaderLine(line) ==
    /\ line # <<>>
    /\ ~IsContinuation(line)
    /\ \E i \in 1..Len(line) : line[i] = ":"
    /\ TrimSpace(SubSeq(line, 1, (CHOOSE i \in 1..Len(line) :
            line[i] = ":" /\ \A j \in 1..(i - 1) : line[j] # ":") - 1)) # <<>>

FirstColon(line) ==
    CHOOSE i \in 1..Len(line) : line[i] = ":" /\ \A j \in 1..(i - 1) : line[j] # ":"
LineName(line) == TrimSpace(SubSeq(line, 1, FirstColon(line) - 1))
LineValue(line) == TrimSpace(SubSeq(line, FirstColon(line) + 1, Len(line)))

\* every non-continuation line of the block is Name: value
WellFormedBlock(lines) ==
    \A i \in 1..Len(lines) : IsContinuation(lines[i]) \/ IsHeaderLine(lines[i])

\* the continuation lines of header line i: the lines after it up to the next
\* header line
RECURSIVE Folded(_, _)
Folded(lines, j) ==
    IF j <= Len(lines) /\ IsContinuation(lines[j])
    THEN <<SP>> \o TrimSpace(lines[j]) \o Folded(lines, j + 1)
    ELSE <<>>

\* the map the claim describes for a well-formed block
UnfoldedHeaders(lines) ==
    LET heads == {i \in 1..Len(lines) : IsHeaderLine(lines[i])}
        names == {LineName(lines[i]) : i \in heads}
        lastOf(n) == CHOOSE i \in heads :
                        /\ LineName(lines[i]) = n
                        /\ \A k \in heads : LineName(lines[k]) = n => k <= i
    IN  [n \in names |-> LineValue(lines[lastOf(n)]) \o Folded(lines, lastOf(n) + 1)]

\* C8: for a header block whose non-continuation lines are all Name: value,
\* parseHeaders returns one entry per distinct name, whose value is the trimmed
\* value of the name's last line followed by the trimmed content of each of its
\* continuation lines, each joined by a single space.
C8_ParseWellFormed ==
    (parsed /\ WellFormedBlock(Split(headerData, CRLF)))
    => headers = UnfoldedHeaders(Split(headerData, CRLF))

\* C11: a Data on a session with no declared recipient builds a request with an
\* empty recipient list and hands it to the send collaborator, and once the
\* collaborator has answered, its answer alone decides accept or reject.
C11_ZeroRecipientsStillSent ==
    \A s \in AllSessions :
        /\ (pc[s] = "sending" /\ declared[s] = <<>>)
              => /\ pending[s] # NoCall
                 /\ Request(s).toRecipients = <<>>
        /\ (DataCompleted(s) /\ declared[s] = <<>>)
              => ((last.ret = Nil) <=> (last.post = Nil))

\* C11 witness: a Data on a session with no declared recipient reached the
\* collaborator and was rejected by it
C11_Witness ==
    \E s \in AllSessions :
        /\ DataCompleted(s)
        /\ declared[s] = <<>>
        /\ to[s] = <<>>
        /\ last.ret # Nil

\* session s sits in Post, session t is another connection between two commands
Waiting(s) == s \in live /\ pc[s] = "sending"
OtherIdle(s, t) == t # s /\ t \in live /\ pc[t] = "idle"

\* while s waits, the commands of every other session are enabled
OthersCanProceed ==
    \A s, t \in AllSessions :
        (Waiting(s) /\ OtherIdle(s, t)) =>
            /\ ENABLED Mail(t, SenderOf(t))
            /\ Len(to[t]) < MaxRcpt => ENABLED Rcpt(t, RecipientOf(t))
            /\ sent < MaxData => ENABLED Data(t, MsgMissing, Nil)

\* a step in which the deadline ends the Post of s: its Data returns a rejection,
\* the call is no longer pending and the record written is the failure record
DeadlineRejects ==
    \A s \in AllSessions :
        (Waiting(s) /\ pc'[s] = "idle" /\ last'.post = DeadlineExceeded) =>
            /\ last'.op = "Data" /\ last'.s = s
            /\ last'.ret # Nil
            /\ pending'[s] = NoCall
            /\ Len(log') = Len(log) + 1
            /\ log'[Len(log')].fmt = FailureFormat
            /\ log'[Len(log')].by = s

\* C12: a Post still pending at the deadline is abandoned and its Data returns a
\* rejection and writes a failure record; every waiting Data eventually returns;
\* and while one session waits every other session can go on with Mail, Rcpt, Data.
C12_DeadlineRejectsOthersProceed ==
    /\ []OthersCanProceed
    /\ [][DeadlineRejects]_vars
    /\ \A s \in AllSessions : Waiting(s) ~> (pc[s] = "idle")

\* C12 witness: the deadline ended the Data of one session after the other session,
\* whose record is in the log before it, had completed a Data of its own
C12_Witness ==
    \E s, t \in AllSessions :
        /\ s # t
        /\ DataCompleted(s)
        /\ last.post = DeadlineExceeded
        /\ last.ret # Nil
        /\ outcomes[t] # <<>>
        /\ Len(log) = 2
        /\ log[1].by = t
        /\ log[2].by = s
        /\ log[2].fmt = FailureFormat

\* the positions at which CRLF CRLF starts in msg
SeparatorAt(msg) ==
    {i \in 1..Len(msg) : i + 3 <= Len(msg) /\ SubSeq(msg, i, i + 3) = <<CR, LF, CR, LF>>}

\* the text before, and the text after, the first CRLF CRLF of msg
FirstSeparator(msg) == CHOOSE i \in SeparatorAt(msg) : \A j \in SeparatorAt(msg) : i <= j
BeforeSeparator(msg) ==
    IF SeparatorAt(msg) = {} THEN msg ELSE SubSeq(msg, 1, FirstSeparator(msg) - 1)
AfterSeparator(msg) ==
    IF SeparatorAt(msg) = {} THEN <<>> ELSE SubSeq(msg, FirstSeparator(msg) + 4, Len(msg))

\* C13: Data splits the raw message at the first CRLF CRLF: the headers are parsed
\* from the text before it and the request body is everything after it, later
\* CRLF CRLF sequences and the text after them included; without any CRLF CRLF the
\* whole message is the header block and the body is empty.
C13_BodyIsAllAfterFirstSeparator ==
    \A s \in AllSessions :
        pc[s] = "sending" =>
            /\ Request(s).subject = MapGet(parseHeaders(BeforeSeparator(message[s])), KeySubject)
            /\ Request(s).body.content = AfterSeparator(message[s])

\* the lines of a header block, and the block without its i-th line
BlockLines(data) == Split(data, CRLF)
WithoutLine(lines, i) == SubSeq(lines, 1, i - 1) \o SubSeq(lines, i + 1, Len(lines))

\* a non-continuation, non-empty line without colon
IsMalformed(line) ==
    /\ line # <<>>
    /\ ~IsContinuation(line)
    /\ \A i \in 1..Len(line) : line[i] # ":"

\* C14: a non-continuation line without colon is dropped by parseHeaders: the map
\* returned for a block holding such a line is the map returned for the block
\* without that line, so the header before it keeps its value.
C14_MalformedLineDropped ==
    parsed =>
        \A i \in 1..Len(BlockLines(headerData)) :
            IsMalformed(BlockLines(headerData)[i]) =>
                headers = parseHeaders(JoinText(WithoutLine(BlockLines(headerData), i), CRLF))

\* C15: a continuation line before any header line is ignored by parseHeaders: the
\* map returned equals the map for the block without that leading line.
C15_LeadingContinuationIgnored ==
    (parsed /\ IsContinuation(BlockLines(headerData)[1])) =>
        headers = parseHeaders(JoinText(WithoutLine(BlockLines(headerData), 1), CRLF))

\* the header names Data looks up, and the canonical spelling of a name
LookedUpNames == {KeySubject, KeyContentType, KeyAttachments}
CanonicalName(n) ==
    IF \E k \in LookedUpNames : ToLower(k) = ToLower(n)
    THEN CHOOSE k \in LookedUpNames : ToLower(k) = ToLower(n)
    ELSE n

\* a header line with its name in canonical spelling
CanonicalLine(line) ==
    IF IsHeaderLine(line)
    THEN CanonicalName(LineName(line)) \o SubSeq(line, FirstColon(line), Len(line))
    ELSE line

\* the message with every header name in canonical spelling
Canonical(msg) ==
    LET lines == BlockLines(BeforeSeparator(msg))
    IN  JoinText([i \in 1..Len(lines) |-> CanonicalLine(lines[i])], CRLF)
            \o SubSeq(msg, Len(BeforeSeparator(msg)) + 1, Len(msg))

\* C16: the lookups of Subject, Content-Type and Attachments ignore the letter case
\* of the header name: a message yields the same request (subject, content kind,
\* attachments) as the same message with the names in canonical spelling.
C16_LookupsIgnoreCase ==
    \A s \in AllSessions :
        pc[s] = "sending" =>
            /\ Request(s).subject = NewMessage(Canonical(message[s]), to[s]).subject
            /\ Request(s).body = NewMessage(Canonical(message[s]), to[s]).body
            /\ Request(s).attachments = NewMessage(Canonical(message[s]), to[s]).attachments

\* the success and failure records of a sequence of log records
OutcomeRecords(records) ==
    LET isOutcome(r) == r.fmt \in {SuccessFormat, FailureFormat}
    IN  SelectSeq(records, isOutcome)

\* the number of Data calls of the sessions in S that Post has returned to, and of
\* those that wait in Post
RECURSIVE CompletedData(_)
CompletedData(S) ==
    IF S = {} THEN 0
    ELSE LET s == CHOOSE x \in S : TRUE
         IN  Len(outcomes[s]) + CompletedData(S \ {s})
WaitingData(S) == Cardinality({s \in S : pc[s] = "sending"})

\* C17: every Data whose message was read makes exactly one call of Post and writes
\* exactly one outcome record for it, the success record when the call succeeded
\* and the failure record when it failed; nothing is retried.
C17_OneCallOneRecord ==
    /\ sent = CompletedData(AllSessions) + WaitingData(AllSessions)
    /\ Len(OutcomeRecords(log)) = CompletedData(AllSessions)
    /\ \A s \in AllSessions :
          /\ pc[s] = "sending" => OutcomeRecords(DataLog(s)) = <<>>
          /\ DataCompleted(s) =>
                /\ Len(OutcomeRecords(DataLog(s))) = 1
                /\ OutcomeRecords(DataLog(s))[1].fmt =
                      IF last.post = Nil THEN SuccessFormat ELSE FailureFormat

\* C17 witness: a Data whose call failed has just returned, after an earlier Data
\* whose call succeeded; the log holds one record for each
C17_Witness ==
    \E s \in AllSessions :
        /\ DataCompleted(s)
        /\ last.post # Nil
        /\ Len(outcomes[s]) = 2
        /\ outcomes[s][1] = Nil
        /\ Len(OutcomeRecords(log)) = 2

\* C18: the session validates the order of the commands: a Data on a session on
\* which no Mail was accepted since session start or the last Reset is rejected
\* without a call of the send collaborator, so no such Data ever waits in Post.
C18_DataRequiresMail ==
    \A s \in AllSessions :
        (pc[s] = "sending" \/ pending[s] # NoCall) => mailSinceReset[s]

\* the envelope of s holds only what the client of s declared
OwnEnvelope(s) ==
    /\ from[s] \in {"", SenderOf(s)}
    /\ Range(to[s]) \subseteq {RecipientOf(s)}

\* a request in flight is built from the envelope of the session that submitted it
OwnRequest(s) ==
    pc[s] = "sending" =>
        /\ pending[s].user = from[s]
        /\ RequestAddresses(pending[s]) = to[s]
        /\ Range(RequestAddresses(pending[s])) \subseteq {RecipientOf(s)}

\* a step changes the envelope of s only if it is a command of s
OnlyOwnCommands ==
    \A s \in AllSessions :
        (from'[s] # from[s] \/ to'[s] # to[s]) =>
            /\ last'.s = s
            /\ last'.op \in {"NewSession", "AuthPlain", "Mail", "Rcpt", "Reset"}

\* C19: NewSession returns a session with empty sender and recipient list; under
\* every interleaving of the commands of the sessions sharing the Backend, a command
\* of one session never changes the sender or recipients of another, no session
\* changes the Backend, and each request is built from the submitter's own envelope.
C19_EnvelopeIsConnectionLocal ==
    /\ [](last.op = "NewSession" => (from[last.s] = "" /\ to[last.s] = <<>>))
    /\ [](backend = TheBackend)
    /\ [](\A s \in AllSessions : OwnEnvelope(s) /\ OwnRequest(s))
    /\ [][OnlyOwnCommands]_vars

\* C19 witness: both sessions wait in Post at once, each with its own sender and
\* recipients in its request
C19_Witness ==
    /\ pc["c1"] = "sending"
    /\ pc["c2"] = "sending"
    /\ pending["c1"].user = SenderOf("c1")
    /\ pending["c2"].user = SenderOf("c2")
    /\ RequestAddresses(pending["c1"]) = <<RecipientOf("c1"), RecipientOf("c1")>>
    /\ RequestAddresses(pending["c2"]) = <<RecipientOf("c2")>>

\* a step in which a Data of s returns without having called Post
ReturnsBeforePost(s) ==
    /\ last' # last
    /\ last'.op = "Data"
    /\ last'.s = s
    /\ last'.post = "not called"

\* C20: when reading the raw message fails, Data returns the read error at once:
\* no call of the send collaborator is made, no record is written to the log, and
\* the session's sender and recipient list are left as they were.
C20_ReadFailureReturnsAtOnce ==
    [][\A s \in AllSessions :
          ReturnsBeforePost(s) =>
              /\ last'.ret \in ReadResults \ {Nil}
              /\ sent' = sent
              /\ pending' = pending
              /\ pc' = pc
              /\ log' = log
              /\ from' = from
              /\ to' = to]_vars

\* C20 witness: a Data of a session with sender and recipients has returned the read
\* error; no call was made and nothing is in the log
C20_Witness ==
    \E s \in AllSessions :
        /\ last = Returned("Data", s, "unexpected EOF", "not called")
        /\ from[s] # ""
        /\ to[s] # <<>>
        /\ sent = 0
        /\ log = <<>>

====
